---- MODULE Spec2Model ----
(***************************************************************************)
(* A model of the compressed-NFT demo scripts: the helpers of utils.ts     *)
(* (getOrCreateKeypair, airdropSolIfNeeded, extractAssetId), the proof     *)
(* path computed before a transfer or burn, and the main flows of the      *)
(* scripts (create tree, mint, transfer, burn) against a ledger that       *)
(* executes each transaction atomically.                                   *)
(***************************************************************************)
EXTENDS Integers, Sequences, FiniteSets, TLC

VARIABLES
    txInfo,      \* extractAssetId: what connection.getTransaction returned
    treeArg,     \* extractAssetId: the treeAddress argument
    extracted    \* extractAssetId: <<>> before the call, <<outcome>> after it

extractVars == <<txInfo, treeArg, extracted>>

(***************************************************************************)
(* Values shared by the whole model.                                       *)
(***************************************************************************)

\* JavaScript's undefined for an optional number: <<>>; a number n: <<n>>.
Undefined == <<>>

Some(n) == <<n>>

Max(S) == CHOOSE x \in S : \A y \in S : y <= x

\* All sequences over S of length 0..n.
SeqsUpTo(S, n) == UNION {[1..k -> S] : k \in 0..n}

(***************************************************************************)
(* extractAssetId (utils.ts)                                               *)
(***************************************************************************)

\* Bounds of the transactions handed to extractAssetId.
MaxTopLevel == 2

MaxInner == 2

MaxLeafIndex == 1

TreeAddresses == {"treeA", "treeB"}

\* The programs an instruction can be addressed to.
BUBBLEGUM_PROGRAM_ID == "Bubblegum"

SPL_NOOP_PROGRAM_ID == "Noop"

OtherPrograms == {"System"}

\* The data of an inner instruction, by what decoding it gives: bytes that are
\* no account-compression event, an application-data event (the leaf schema),
\* or a change-log event V1 carrying a leaf index (possibly absent).
InnerData ==
    {[kind |-> "Malformed", index |-> Undefined],
     [kind |-> "ApplicationData", index |-> Undefined],
     [kind |-> "ChangeLog", index |-> Undefined]}
    \cup {[kind |-> "ChangeLog", index |-> Some(n)] : n \in 0..MaxLeafIndex}

\* Inner instructions: no-ops with any data, and one instruction of the
\* compression program (its data is never decoded).
InnerIxs ==
    {[program |-> SPL_NOOP_PROGRAM_ID, data |-> d] : d \in InnerData}
    \cup {[program |-> "Compression",
           data |-> [kind |-> "Malformed", index |-> Undefined]]}

\* A group of inner instructions that belongs to another top-level
\* instruction: one change-log no-op whose index no scanned group carries.
DecoyIndex == MaxLeafIndex + 1

DecoyGroup ==
    <<[program |-> SPL_NOOP_PROGRAM_ID,
       data |-> [kind |-> "ChangeLog", index |-> Some(DecoyIndex)]]>>

\* What each top-level instruction produced: nothing ("none"), the decoy
\* group, or a group drawn from InnerIxs ("rich"); at most one is rich.
InnerShapes(n) ==
    {s \in [1..n -> {"none", "decoy", "rich"}] :
        Cardinality({i \in 1..n : s[i] = "rich"}) <= 1}

RECURSIVE GroupsFrom(_, _, _, _)
\* meta.innerInstructions as the RPC node lists it: one entry {index,
\* instructions} per top-level instruction that produced inner instructions,
\* in order, index being the 0-based position of that instruction.
GroupsFrom(shape, rich, i, n) ==
    IF i > n THEN <<>>
    ELSE IF shape[i] = "none" THEN GroupsFrom(shape, rich, i + 1, n)
    ELSE <<[index |-> i - 1,
            instructions |-> IF shape[i] = "rich" THEN rich ELSE DecoyGroup]>>
         \o GroupsFrom(shape, rich, i + 1, n)

\* The transactions extractAssetId is given: getTransaction found nothing
\* (null), or a transaction with its top-level programs and its metadata's
\* innerInstructions (null when the node recorded none).
NullTx == [found |-> FALSE, programs |-> <<>>, hasInner |-> FALSE, inner |-> <<>>]

TxInfos ==
    {NullTx}
    \cup {[found |-> TRUE, programs |-> p, hasInner |-> FALSE, inner |-> <<>>] :
            p \in SeqsUpTo({BUBBLEGUM_PROGRAM_ID} \cup OtherPrograms, MaxTopLevel)}
    \cup UNION {UNION {
            {[found |-> TRUE, programs |-> p, hasInner |-> TRUE,
              inner |-> GroupsFrom(s, r, 1, Len(p))] :
                r \in IF \E i \in 1..Len(p) : s[i] = "rich"
                      THEN SeqsUpTo(InnerIxs, MaxInner) ELSE {<<>>}} :
            s \in InnerShapes(Len(p))} :
            p \in SeqsUpTo({BUBBLEGUM_PROGRAM_ID} \cup OtherPrograms, MaxTopLevel)}

\* isProgramId(instruction, programId)
IsProgramId(program, programId) == program = programId

\* deserializeChangeLogEventV1(Buffer.from(base58.decode(data))): throws on
\* bytes that are no event and on an event that is no change log V1.
DeserializeChangeLogEventV1(data) ==
    IF data.kind = "ChangeLog"
    THEN [threw |-> FALSE, index |-> data.index]
    ELSE [threw |-> TRUE, index |-> Undefined]

\* The scan of the mutant: first to last.
RECURSIVE ScanForward(_, _)
ScanForward(ixs, i) ==
    IF ixs = <<>> THEN Undefined
    ELSE LET ev == DeserializeChangeLogEventV1(Head(ixs).data)
         IN IF ~ev.threw /\ ev.index # Undefined THEN ev.index
            ELSE ScanForward(Tail(ixs), i)

\* The loop `for (let i = relevantInnerIxs.length - 1; i >= 0; i--)`: i is the
\* 1-based position still to try; the value is assetIndex after the loop.
RECURSIVE ScanAssetIndex(_, _)
ScanAssetIndex(ixs, i) ==
    IF i = 0 THEN Undefined
    ELSE LET ev == DeserializeChangeLogEventV1(ixs[i].data)
         IN IF ev.threw THEN ScanAssetIndex(ixs, i - 1)
            ELSE IF ev.index # Undefined THEN ev.index
            ELSE ScanAssetIndex(ixs, i - 1)

\* The mutant: the number given to BN is lost.
BNZero(number) == 0

\* new BN(number): bn.js initialises from `number || 0`.
BN(number) == IF number = Undefined THEN 0 ELSE number[1]

\* getLeafAssetId(tree, leafIndex): the address derived from the two.
GetLeafAssetId(tree, leafIndex) ==
    [kind |-> "asset", tree |-> tree, leaf |-> leafIndex]

\* The other two outcomes of a call: `return` with no value, and a TypeError.
ReturnedUndefined == [kind |-> "undefined", tree |-> "", leaf |-> -1]

Thrown == [kind |-> "throw", tree |-> "", leaf |-> -1]

\* compiledInstructions.findIndex(isProgramId(_, programId)): the 0-based
\* position of the first instruction addressed to programId, or -1.
FindIndex(programs, programId) ==
    IF \E i \in 1..Len(programs) : IsProgramId(programs[i], programId)
    THEN (CHOOSE i \in 1..Len(programs) :
             /\ IsProgramId(programs[i], programId)
             /\ \A j \in 1..(i - 1) : ~IsProgramId(programs[j], programId)) - 1
    ELSE -1

\* The mutant: the first instruction taken as the Bubblegum instruction.
RelevantIndexZero(info) == 0

\* relevantIndex
RelevantIndex(info) == FindIndex(info.programs, BUBBLEGUM_PROGRAM_ID)

\* txInfo.meta?.innerInstructions?.[relevantIndex] is read by array position;
\* TRUE when reading `.instructions` of it does not throw and gives an array.
HasRelevantGroup(info) ==
    /\ info.hasInner
    /\ RelevantIndex(info) + 1 \in 1..Len(info.inner)

\* relevantInnerInstructions.filter(isProgramId(_, SPL_NOOP_PROGRAM_ID)): the
\* no-op instructions of seq, in order.
RECURSIVE FilterNoOps(_)
FilterNoOps(seq) ==
    IF seq = <<>> THEN <<>>
    ELSE (IF IsProgramId(Head(seq).program, SPL_NOOP_PROGRAM_ID)
          THEN <<Head(seq)>> ELSE <<>>)
         \o FilterNoOps(Tail(seq))

\* relevantInnerIxs
RelevantInnerIxs(info) ==
    FilterNoOps(info.inner[RelevantIndex(info) + 1].instructions)

\* extractAssetId(connection, txSignature, treeAddress), given what
\* getTransaction returned.
ExtractAssetId(info, tree) ==
    IF ~info.found THEN Thrown
    ELSE IF RelevantIndex(info) < 0 THEN ReturnedUndefined
    ELSE IF ~HasRelevantGroup(info) THEN Thrown
    ELSE LET ixs == RelevantInnerIxs(info)
         IN GetLeafAssetId(tree, BN(ScanAssetIndex(ixs, Len(ixs))))

\* One call of extractAssetId.
Extract ==
    /\ extracted = <<>>
    /\ extracted' = <<ExtractAssetId(txInfo, treeArg)>>
    /\ UNCHANGED <<txInfo, treeArg>>

(***************************************************************************)
(* getOrCreateKeypair (utils.ts) and the .env file                         *)
(***************************************************************************)

VARIABLES
    envFile,     \* the text of .env: a sequence of characters
    processEnv,  \* process.env of the running script, for the wallet names
    runNo,       \* how many runs of a script have started
    callsLeft,   \* the wallet names the running script has still to ask for
    lastCall,    \* <<>>, or <<the last call of getOrCreateKeypair>>
    saved        \* the keypairs generated and saved so far, with their run

keyVars == <<envFile, processEnv, runNo, callsLeft, lastCall, saved>>

\* The number of script runs followed.
MaxRuns == 2

WalletNames == {"Wallet_1", "Wallet_2"}

\* The calls of getOrCreateKeypair a script makes, in order.
ScriptCalls == {<<"Wallet_1">>, <<"Wallet_1", "Wallet_2">>}

\* A variable process.env does not hold.
Absent == <<"absent">>

\* The secret keys Keypair.generate() may draw: a seed byte followed by the
\* public key byte that belongs to it.
SecretKeys == {<<7, 130>>, <<25, 5>>, <<200, 13>>}

\* Keypair.fromSecretKey(secretKey): the public key is the second half of the
\* secret key; a key of the wrong size, or whose halves do not belong
\* together, is refused.
KeypairFromSecretKey(secretKey) ==
    IF secretKey \in SecretKeys
    THEN [ok |-> TRUE, secretKey |-> secretKey, publicKey |-> <<secretKey[2]>>]
    ELSE [ok |-> FALSE, secretKey |-> <<>>, publicKey |-> <<>>]

DigitChars == <<"0", "1", "2", "3", "4", "5", "6", "7", "8", "9">>

\* The decimal digits of n, as JSON.stringify writes a number.
RECURSIVE NumberToText(_)
NumberToText(n) ==
    IF n < 10 THEN <<DigitChars[n + 1]>>
    ELSE NumberToText(n \div 10) \o <<DigitChars[(n % 10) + 1]>>

\* The mutant: the array written without its commas.
RECURSIVE JsonElementsNoComma(_)
JsonElementsNoComma(bytes) ==
    IF bytes = <<>> THEN <<>>
    ELSE NumberToText(Head(bytes)) \o JsonElementsNoComma(Tail(bytes))

JsonStringifyNoComma(bytes) == <<"[">> \o JsonElementsNoComma(bytes) \o <<"]">>

RECURSIVE JsonElements(_)
\* The elements of a JSON array, separated by commas.
JsonElements(bytes) ==
    IF bytes = <<>> THEN <<>>
    ELSE IF Len(bytes) = 1 THEN NumberToText(Head(bytes))
    ELSE NumberToText(Head(bytes)) \o <<",">> \o JsonElements(Tail(bytes))

\* JSON.stringify(Array.from(keypair.secretKey))
JsonStringify(bytes) == <<"[">> \o JsonElements(bytes) \o <<"]">>

IsDigit(c) == \E d \in 1..10 : DigitChars[d] = c

DigitValue(c) == (CHOOSE d \in 1..10 : DigitChars[d] = c) - 1

\* The numbers of a comma-separated list of digits; acc is the number being
\* read, started tells whether it has a digit yet.
RECURSIVE ParseElements(_, _, _)
ParseElements(text, acc, started) ==
    IF text = <<>> THEN (IF started THEN <<acc>> ELSE <<>>)
    ELSE IF IsDigit(Head(text))
         THEN ParseElements(Tail(text), acc * 10 + DigitValue(Head(text)), TRUE)
    ELSE <<acc>> \o ParseElements(Tail(text), 0, FALSE)

\* Whether text is a JSON array of numbers.
IsJsonArray(text) ==
    /\ Len(text) >= 2
    /\ text[1] = "[" /\ text[Len(text)] = "]"
    /\ \A i \in 2..(Len(text) - 1) : IsDigit(text[i]) \/ text[i] = ","
    /\ \A i \in 2..(Len(text) - 1) :
          text[i] = "," => (IsDigit(text[i - 1]) /\ IsDigit(text[i + 1]))

\* new Uint8Array(JSON.parse(envWalletKey)): each number kept modulo 256.
Uint8ArrayOfJson(text) ==
    LET nums == ParseElements(SubSeq(text, 2, Len(text) - 1), 0, FALSE)
    IN [i \in 1..Len(nums) |-> nums[i] % 256]

\* The lines of a text: the pieces between line feeds.
RECURSIVE SplitLines(_, _)
SplitLines(text, line) ==
    IF text = <<>> THEN <<line>>
    ELSE IF Head(text) = "\n" THEN <<line>> \o SplitLines(Tail(text), <<>>)
    ELSE SplitLines(Tail(text), Append(line, Head(text)))

\* dotenv's parse: each line KEY=VALUE sets KEY, a later line overriding an
\* earlier one; other lines are skipped. The value of name, or Absent.
RECURSIVE ParsedValue(_, _, _)
ParsedValue(lines, name, sofar) ==
    IF lines = <<>> THEN sofar
    ELSE LET l == Head(lines)
         IN IF Len(l) >= 2 /\ l[1] = name /\ l[2] = "="
            THEN ParsedValue(Tail(lines), name, SubSeq(l, 3, Len(l)))
            ELSE ParsedValue(Tail(lines), name, sofar)

\* dotenv.config() in a fresh process: process.env for the wallet names.
DotenvConfig(file) ==
    [name \in WalletNames |-> ParsedValue(SplitLines(file, <<>>), name, Absent)]

\* The mutant: a keypair generated and saved whatever the environment holds.
NoSecretKeyEver(value) == TRUE

\* `!envWalletKey`: the variable is unset or empty.
NoSecretKey(value) == value = Absent \/ value = <<>>

\* The mutant: the line appended with no line feed before it.
AppendedTextNoLineFeed(walletName, secretKey) ==
    <<walletName, "=">> \o JsonStringify(secretKey)

\* The text fs.appendFileSync adds to .env.
AppendedText(walletName, secretKey) ==
    <<"\n", walletName, "=">> \o JsonStringify(secretKey)

\* The .env files a first run may find: none, one with the RPC URL (with or
\* without a final line feed), and one that names a wallet with no value.
InitialEnvFiles ==
    {<<>>,
     <<"RPC_URL", "=", "u">>,
     <<"RPC_URL", "=", "u", "\n">>,
     <<"RPC_URL", "=", "u", "\n", "Wallet_2", "=">>}

\* A script starts: utils.ts loads .env into the environment of the process.
StartRun ==
    /\ callsLeft = <<>>
    /\ runNo < MaxRuns
    /\ \E calls \in ScriptCalls : callsLeft' = calls
    /\ runNo' = runNo + 1
    /\ processEnv' = DotenvConfig(envFile)
    /\ UNCHANGED <<envFile, lastCall, saved>>

\* getOrCreateKeypair(walletName), for the next name the script asks for.
GetOrCreateKeypair ==
    /\ callsLeft # <<>>
    /\ LET walletName == Head(callsLeft)
           envWalletKey == processEnv[walletName]
       IN IF NoSecretKey(envWalletKey)
          THEN \E secretKey \in SecretKeys :
                /\ envFile' = envFile \o AppendedText(walletName, secretKey)
                /\ lastCall' = <<[name |-> walletName, run |-> runNo,
                                  hadKey |-> FALSE, fileBefore |-> envFile,
                                  envBefore |-> envWalletKey,
                                  keypair |-> KeypairFromSecretKey(secretKey)]>>
                /\ saved' = saved \cup
                       {[name |-> walletName, run |-> runNo,
                         secretKey |-> secretKey]}
          ELSE /\ lastCall' = <<[name |-> walletName, run |-> runNo,
                                 hadKey |-> TRUE, fileBefore |-> envFile,
                                 envBefore |-> envWalletKey,
                                 keypair |->
                                     IF IsJsonArray(envWalletKey)
                                     THEN KeypairFromSecretKey(
                                              Uint8ArrayOfJson(envWalletKey))
                                     ELSE KeypairFromSecretKey(<<>>)]>>
               /\ UNCHANGED <<envFile, saved>>
    /\ callsLeft' = Tail(callsLeft)
    /\ UNCHANGED <<processEnv, runNo>>

(***************************************************************************)
(* The proof path of a transfer or burn                                    *)
(***************************************************************************)

\* Array.prototype.slice(0, end): a negative end counts from the end of the
\* array, and an end beyond the length stops at the length.
SliceFromStart(seq, end) ==
    LET stop == IF end < 0 THEN (IF Len(seq) + end < 0 THEN 0 ELSE Len(seq) + end)
                ELSE IF end > Len(seq) THEN Len(seq) ELSE end
    IN SubSeq(seq, 1, stop)

\* `treeAccount.getCanopyDepth() || 0`
CanopyOrZero(canopyDepth) ==
    IF canopyDepth = Undefined \/ canopyDepth = Some(0) THEN 0 ELSE canopyDepth[1]

\* proof.map(node => ({pubkey, isSigner: false, isWritable: false}))
AccountMetas(proof) ==
    [i \in 1..Len(proof) |->
        [pubkey |-> proof[i], isSigner |-> FALSE, isWritable |-> FALSE]]

\* proofPath: proof.map(...).slice(0, proof.length - canopyDepth)
ProofPath(proof, canopyDepth) ==
    SliceFromStart(AccountMetas(proof), Len(proof) - CanopyOrZero(canopyDepth))

VARIABLES
    proof,        \* getAssetProof's proof: node addresses, leaf side first
    canopyDepth,  \* treeAccount.getCanopyDepth(): Undefined or <<depth>>
    proofPath     \* <<>> before the computation, <<the proof path>> after it

proofVars == <<proof, canopyDepth, proofPath>>

\* Bounds of the proofs and canopies tried.
MaxProofLen == 3

MaxCanopy == 4

ProofNodes == {"n1", "n2", "n3"}

\* The transfer of test.ts computing its proof path.
TransferProofPath ==
    /\ proofPath = <<>>
    /\ proofPath' = <<ProofPath(proof, canopyDepth)>>
    /\ UNCHANGED <<proof, canopyDepth>>

(***************************************************************************)
(* The scripts: their operations in order                                  *)
(***************************************************************************)

LAMPORTS_PER_SOL == 1000000000

\* The entry points: the main of each index.ts and of solution.ts, and the
\* mocha suite of test.ts.
Scripts ==
    {"collection", "solution", "readapi", "burn", "full", "keypair",
     "starter", "test"}

\* One operation of a script.
Op(name, awaited, amount, extract, collection, asset) ==
    [op |-> name, awaited |-> awaited, amount |-> amount,
     extract |-> extract, collection |-> collection, asset |-> asset]

\* airdropSolIfNeeded(wallet.publicKey), awaited or not.
AirdropOp(awaited) == Op("airdrop", awaited, 0, FALSE, FALSE, "")

CreateCollectionOp == Op("createCollection", TRUE, 0, FALSE, FALSE, "")

CreateTreeOp == Op("createTree", TRUE, 0, FALSE, FALSE, "")

\* `amount` mints in a row; extract: extractAssetId follows each mint;
\* collection: the mint is a mint to the collection.
MintOp(amount, extract, collection) ==
    Op("mint", TRUE, amount, extract, collection, "")

\* The mutant: one asset more logged than asked for.
LogOpOneMore(amount) == Op("log", TRUE, amount + 1, FALSE, FALSE, "")

\* logNftDetails(treeAddress, amount)
LogOp(amount) == Op("log", TRUE, amount, FALSE, FALSE, "")

\* asset: "id1" / "id2" (what the first / second mint returned) or "leaf0"
\* (getLeafAssetId(treeAddress, new BN(0))).
TransferOp(asset) == Op("transfer", TRUE, 0, FALSE, FALSE, asset)

BurnOp(asset) == Op("burn", TRUE, 0, FALSE, FALSE, asset)

\* The tree size parameters and canopy depth each script passes.
TreeParams(s) ==
    IF s = "solution" THEN [maxDepth |-> 14, maxBufferSize |-> 64, canopyDepth |-> 0]
    ELSE IF s = "keypair" THEN [maxDepth |-> 3, maxBufferSize |-> 8, canopyDepth |-> 3 - 5]
    ELSE [maxDepth |-> 3, maxBufferSize |-> 8, canopyDepth |-> 0]

\* The mutant: the first mint placed before the creation of the tree.
BurnMainOpsMintFirst ==
    <<AirdropOp(FALSE), MintOp(1, TRUE, FALSE), CreateTreeOp,
      MintOp(1, TRUE, FALSE), TransferOp("id1"), BurnOp("id2")>>

\* main of the mint / transfer / burn index.ts.
BurnMainOps ==
    <<AirdropOp(FALSE), CreateTreeOp, MintOp(1, TRUE, FALSE),
      MintOp(1, TRUE, FALSE), TransferOp("id1"), BurnOp("id2")>>

\* The operations of each script, in program order.
ScriptOps(s) ==
    CASE s = "collection" ->
            <<AirdropOp(FALSE), CreateCollectionOp, CreateTreeOp,
              MintOp(100, TRUE, TRUE)>>
      [] s = "solution" ->
            <<AirdropOp(FALSE), CreateTreeOp, CreateCollectionOp,
              MintOp(100, TRUE, TRUE)>>
      [] s = "readapi" ->
            <<AirdropOp(FALSE), CreateTreeOp, CreateCollectionOp,
              MintOp(2 ^ TreeParams(s).maxDepth, FALSE, TRUE),
              LogOp(2 ^ TreeParams(s).maxDepth), TransferOp("leaf0")>>
      [] s = "burn" -> BurnMainOps
      [] s = "full" ->
            <<AirdropOp(FALSE), CreateTreeOp, MintOp(1, TRUE, FALSE),
              MintOp(1, TRUE, FALSE), TransferOp("id1"), BurnOp("id2"),
              CreateCollectionOp, MintOp(1, TRUE, TRUE)>>
      [] s = "keypair" ->
            <<CreateTreeOp, CreateCollectionOp, MintOp(1, FALSE, TRUE)>>
      [] s = "starter" -> <<AirdropOp(FALSE)>>
      [] s = "test" ->
            <<AirdropOp(TRUE), CreateCollectionOp, CreateTreeOp,
              MintOp(1, TRUE, TRUE), TransferOp("id1")>>

\* The scripts that are a main (the others are test suites).
MainScripts == Scripts \ {"test"}

\* In the mocha suite the operations from this one on are tests (`it`): a
\* test that throws is reported and the next test runs; the operations before
\* it are the `before` hook, whose failure ends the suite.
FirstTestOp == 3

(***************************************************************************)
(* The ledger                                                              *)
(***************************************************************************)

\* PublicKey.findProgramAddressSync([seed], programId)
FindProgramAddress(seed, programId) == <<"pda", seed, programId>>

\* An instruction; the fields an instruction does not use are 0 or "".
Ix(kind, maxDepth, canopy, authority, leaf, owner, newOwner, proofLen) ==
    [kind |-> kind, maxDepth |-> maxDepth, canopyDepth |-> canopy,
     authority |-> authority, leaf |-> leaf, owner |-> owner,
     newOwner |-> newOwner, proofLen |-> proofLen]

Tx(instrs, feePayer, signers) ==
    [instrs |-> instrs, feePayer |-> feePayer, signers |-> signers]

EmptyLedger ==
    [tree |-> "none", maxDepth |-> 0, canopyDepth |-> 0, numMinted |-> 0,
     owners |-> <<>>, collection |-> FALSE]

\* The effect of one instruction on the ledger, or its refusal.
ApplyIx(l, ix, signers) ==
    CASE ix.kind = "alloc" ->
            IF l.tree = "none" /\ {"tree", "wallet"} \subseteq signers
            THEN [ok |-> TRUE,
                  ledger |-> [l EXCEPT !.tree = "allocated",
                                 !.maxDepth = ix.maxDepth,
                                 !.canopyDepth =
                                     IF ix.canopyDepth < 0 THEN 0
                                     ELSE ix.canopyDepth]]
            ELSE [ok |-> FALSE, ledger |-> l]
      [] ix.kind = "createTree" ->
            IF /\ l.tree = "allocated"
               /\ l.maxDepth = ix.maxDepth
               /\ ix.authority = FindProgramAddress("tree", BUBBLEGUM_PROGRAM_ID)
               /\ "wallet" \in signers
            THEN [ok |-> TRUE, ledger |-> [l EXCEPT !.tree = "initialized"]]
            ELSE [ok |-> FALSE, ledger |-> l]
      [] ix.kind = "createCollection" ->
            [ok |-> TRUE, ledger |-> [l EXCEPT !.collection = TRUE]]
      [] ix.kind \in {"mint", "mintToCollection"} ->
            IF /\ l.tree = "initialized"
               /\ l.numMinted < 2 ^ l.maxDepth
               /\ ix.authority = FindProgramAddress("tree", BUBBLEGUM_PROGRAM_ID)
               /\ "wallet" \in signers
               /\ (ix.kind = "mintToCollection" => l.collection)
            THEN [ok |-> TRUE,
                  ledger |-> [l EXCEPT !.numMinted = @ + 1,
                                 !.owners = Append(@, ix.owner)]]
            ELSE [ok |-> FALSE, ledger |-> l]
      [] ix.kind \in {"transfer", "burn"} ->
            IF /\ l.tree = "initialized"
               /\ ix.leaf < l.numMinted
               /\ l.owners[ix.leaf + 1] = ix.owner
               /\ ix.owner \in signers
               /\ ix.proofLen + l.canopyDepth >= l.maxDepth
            THEN [ok |-> TRUE,
                  ledger |-> [l EXCEPT !.owners[ix.leaf + 1] =
                                 IF ix.kind = "burn" THEN "burned"
                                 ELSE ix.newOwner]]
            ELSE [ok |-> FALSE, ledger |-> l]

\* A transaction is atomic: its instructions run in order on the ledger, and
\* the first one refused undoes the whole transaction. failAt > 0 names an
\* instruction that fails for a reason of its own (a program error).
RECURSIVE ApplyIxs(_, _, _, _, _)
ApplyIxs(l0, l, instrs, signers, failAt) ==
    IF instrs = <<>> THEN [ok |-> TRUE, ledger |-> l]
    ELSE LET r == ApplyIx(l, Head(instrs), signers)
         IN IF failAt = 1 \/ ~r.ok THEN [ok |-> FALSE, ledger |-> l0]
            ELSE ApplyIxs(l0, r.ledger, Tail(instrs), signers, failAt - 1)

\* The outcome of a transaction: refused outright when its fee payer holds no
\* lamports, otherwise executed atomically.
ExecuteTx(l, tx, payerBalance, failAt) ==
    IF payerBalance.sol = 0 /\ payerBalance.rem = 0
    THEN [ok |-> FALSE, ledger |-> l]
    ELSE ApplyIxs(l, l, tx.instrs, tx.signers, failAt)

(***************************************************************************)
(* The scripts running: main, the un-awaited airdrop, the cluster          *)
(***************************************************************************)

VARIABLES
    script,          \* the entry point that runs
    pcOp,            \* main: the position of the current operation
    phase,           \* main: the await the current operation stands at
    loopI,           \* main: the loop counter of a mint or log loop
    status,          \* main: "running", "done" or "failed"
    treeAddress,     \* what createTree returned: <<>> or <<address>>
    assetIds,        \* what extractAssetId returned after each mint
    assetData,       \* transfer / burn: the getAsset answer, <<>> before it
    txQueue,         \* transactions of the current operation still to send
    inFlight,        \* transactions sent and not yet confirmed or failed
    ledger,          \* the cluster's state: the tree account and its leaves
    balance,         \* the payer wallet's lamports
    apc,             \* airdropSolIfNeeded: the await it stands at
    balanceRead,     \* airdropSolIfNeeded: <<>> or <<the balance read first>>
    airdropRequests  \* the amounts of the requestAirdrop calls made

flowVars ==
    <<script, pcOp, phase, loopI, status, treeAddress, assetIds, assetData,
      txQueue, inFlight, ledger, balance, apc, balanceRead, airdropRequests>>

\* An amount of lamports, as whole SOL and the lamports beyond them.
Lamports(sol, rem) == [sol |-> sol, rem |-> rem]

\* n * LAMPORTS_PER_SOL
TimesLamportsPerSol(n) == Lamports(n, 0)

AddLamports(a, b) ==
    Lamports(a.sol + b.sol + (a.rem + b.rem) \div LAMPORTS_PER_SOL,
             (a.rem + b.rem) % LAMPORTS_PER_SOL)

\* The mutant: the comparison of the balance made non-strict.
AtMost(a, b) == a.sol < b.sol \/ (a.sol = b.sol /\ a.rem <= b.rem)

\* a < b
LessThan(a, b) == a.sol < b.sol \/ (a.sol = b.sol /\ a.rem < b.rem)

\* The balances the wallet may hold when a script starts.
Balances ==
    {Lamports(0, 0), Lamports(0, LAMPORTS_PER_SOL - 1), Lamports(1, 0),
     Lamports(1, 1), Lamports(2, 0)}

\* The address of the keypair createTree generates.
TreeKey == "tree"

CurrentOp == ScriptOps(script)[pcOp]

\* The mutant: allocation and initialisation sent as two transactions.
CreateTreeTxsSeparately(payer, treeKeypair, params) ==
    <<Tx(<<Ix("alloc", params.maxDepth, params.canopyDepth, "", 0, "", "", 0)>>,
         payer, {treeKeypair, payer}),
      Tx(<<Ix("createTree", params.maxDepth, 0,
              FindProgramAddress(treeKeypair, BUBBLEGUM_PROGRAM_ID),
              0, "", "", 0)>>,
         payer, {treeKeypair, payer})>>

\* createTree: new Transaction().add(allocTreeIx, createTreeIx), fee payer
\* the payer, signed by [treeKeypair, payer].
CreateTreeTxs(payer, treeKeypair, params) ==
    <<Tx(<<Ix("alloc", params.maxDepth, params.canopyDepth, "", 0, "", "", 0),
           Ix("createTree", params.maxDepth, 0,
              FindProgramAddress(treeKeypair, BUBBLEGUM_PROGRAM_ID),
              0, "", "", 0)>>,
         payer, {treeKeypair, payer})>>

\* The mutant: the tree authority of a mint derived from the payer.
MintTxsPayerAuthority(payer, tree, collection) ==
    <<Tx(<<Ix(IF collection THEN "mintToCollection" ELSE "mint", 0, 0,
              FindProgramAddress(payer, BUBBLEGUM_PROGRAM_ID),
              0, payer, "", 0)>>,
         payer, {payer})>>

\* The mint transaction: one mint instruction, leaf owner the payer.
MintTxs(payer, tree, collection) ==
    <<Tx(<<Ix(IF collection THEN "mintToCollection" ELSE "mint", 0, 0,
              FindProgramAddress(tree, BUBBLEGUM_PROGRAM_ID),
              0, payer, "", 0)>>,
         payer, {payer})>>

\* The proof getAssetProof answers: one node per level of the tree.
IndexerProof(l) == [i \in 1..l.maxDepth |-> i]

\* The transfer or burn transaction, built from the getAsset answer and the
\* tree account's canopy depth.
TransferTxs(kind, data, l, sender, receiver) ==
    <<Tx(<<Ix(kind, 0, 0, "", data.leaf, data.owner,
              IF kind = "transfer" THEN receiver ELSE "",
              Len(ProofPath(IndexerProof(l), Some(l.canopyDepth))))>>,
         sender, {sender})>>

\* The collection NFT's creation, taken as one transaction paid by the payer.
CreateCollectionTxs(payer) ==
    <<Tx(<<Ix("createCollection", 0, 0, "", 0, "", "", 0)>>, payer, {payer})>>

\* The transaction of a mint: getTransaction's answer for it. The mint's
\* inner instructions are the leaf schema's no-op, the compression program's
\* append and the change log's no-op.
MintTxInfo(leafIndex) ==
    [found |-> TRUE, programs |-> <<BUBBLEGUM_PROGRAM_ID>>, hasInner |-> TRUE,
     inner |-> <<[index |-> 0,
                  instructions |->
                      <<[program |-> SPL_NOOP_PROGRAM_ID,
                         data |-> [kind |-> "ApplicationData", index |-> Undefined]],
                        [program |-> "Compression",
                         data |-> [kind |-> "Malformed", index |-> Undefined]],
                        [program |-> SPL_NOOP_PROGRAM_ID,
                         data |-> [kind |-> "ChangeLog",
                                   index |-> Some(leafIndex)]]>>]>>]

\* The asset a transfer or burn is called with.
AssetArgument(name) ==
    IF name = "leaf0" THEN <<GetLeafAssetId(treeAddress[1], BN(Some(0)))>>
    ELSE IF name = "id1" THEN (IF Len(assetIds) >= 1 THEN <<assetIds[1]>> ELSE <<>>)
    ELSE (IF Len(assetIds) >= 2 THEN <<assetIds[2]>> ELSE <<>>)

\* main goes on with its next operation, or returns after the last one.
Advance ==
    /\ pcOp' = pcOp + 1
    /\ phase' = "start"
    /\ loopI' = 0
    /\ status' = IF pcOp = Len(ScriptOps(script)) THEN "done" ELSE "running"

\* The current operation throws: a main rejects; in the test suite a failed
\* test is reported and the next one runs, a failed `before` ends the suite.
Throw ==
    IF script = "test" /\ pcOp >= FirstTestOp
    THEN Advance
    ELSE /\ status' = "failed"
         /\ UNCHANGED <<pcOp, phase, loopI>>

\* An iteration of a loop of `amount` iterations is over.
NextIteration ==
    IF loopI + 1 < CurrentOp.amount
    THEN /\ loopI' = loopI + 1
         /\ phase' = "start"
         /\ UNCHANGED <<pcOp, status>>
    ELSE Advance

Running == status = "running" /\ pcOp <= Len(ScriptOps(script))

\* main calls airdropSolIfNeeded: the call runs up to its first await
\* (getBalance); main waits for it only where the call is awaited.
StartAirdrop ==
    /\ Running
    /\ CurrentOp.op = "airdrop"
    /\ phase = "start"
    /\ apc' = "getBalance"
    /\ IF CurrentOp.awaited
       THEN /\ phase' = "awaitAirdrop"
            /\ UNCHANGED <<pcOp, loopI, status>>
       ELSE Advance
    /\ UNCHANGED <<script, treeAddress, assetIds, assetData, txQueue, inFlight,
                   ledger, balance, balanceRead, airdropRequests>>

\* The awaited airdropSolIfNeeded has settled.
AirdropReturned ==
    /\ Running
    /\ phase = "awaitAirdrop"
    /\ apc \in {"done", "thrown"}
    /\ IF apc = "thrown" THEN Throw ELSE Advance
    /\ UNCHANGED <<script, treeAddress, assetIds, assetData, txQueue, inFlight,
                   ledger, balance, apc, balanceRead, airdropRequests>>

\* airdropSolIfNeeded: getBalance answers (or rejects); below 1 SOL the
\* airdrop of 2 SOL is requested at once.
AirdropBalance ==
    /\ apc = "getBalance"
    /\ \/ /\ balanceRead' = <<balance>>
          /\ IF LessThan(balance, TimesLamportsPerSol(1))
             THEN /\ airdropRequests' =
                         Append(airdropRequests, TimesLamportsPerSol(2))
                  /\ apc' = "requestAirdrop"
             ELSE /\ apc' = "done"
                  /\ UNCHANGED airdropRequests
       \/ /\ apc' = "thrown"
          /\ UNCHANGED <<balanceRead, airdropRequests>>
    /\ UNCHANGED <<script, pcOp, phase, loopI, status, treeAddress, assetIds,
                   assetData, txQueue, inFlight, ledger, balance>>

\* requestAirdrop answers with a signature, or rejects (rate limit) and the
\* catch ends the call.
AirdropRequested ==
    /\ apc = "requestAirdrop"
    /\ apc' \in {"getLatestBlockhash", "done"}
    /\ UNCHANGED <<script, pcOp, phase, loopI, status, treeAddress, assetIds,
                   assetData, txQueue, inFlight, ledger, balance, balanceRead,
                   airdropRequests>>

AirdropBlockhash ==
    /\ apc = "getLatestBlockhash"
    /\ apc' \in {"confirmTransaction", "done"}
    /\ UNCHANGED <<script, pcOp, phase, loopI, status, treeAddress, assetIds,
                   assetData, txQueue, inFlight, ledger, balance, balanceRead,
                   airdropRequests>>

\* confirmTransaction: the airdrop is confirmed and the wallet credited, or
\* the confirmation rejects.
AirdropConfirmed ==
    /\ apc = "confirmTransaction"
    /\ \/ /\ balance' = AddLamports(balance, airdropRequests[Len(airdropRequests)])
          /\ apc' = "getNewBalance"
       \/ /\ apc' = "done"
          /\ UNCHANGED balance
    /\ UNCHANGED <<script, pcOp, phase, loopI, status, treeAddress, assetIds,
                   assetData, txQueue, inFlight, ledger, balanceRead,
                   airdropRequests>>

AirdropNewBalance ==
    /\ apc = "getNewBalance"
    /\ apc' = "done"
    /\ UNCHANGED <<script, pcOp, phase, loopI, status, treeAddress, assetIds,
                   assetData, txQueue, inFlight, ledger, balance, balanceRead,
                   airdropRequests>>

\* The await an operation stands at when its transaction is ready to send.
ReadyPhase(o) ==
    CASE o.op = "createTree" -> "built"
      [] o.op \in {"transfer", "burn"} -> "account"
      [] OTHER -> "start"

\* The mutant: sendAndConfirmTransaction called without await, the operation
\* going back to where it sends.
AfterSendNotAwaited(o) ==
    CASE o.op = "createTree" -> "built"
      [] o.op \in {"transfer", "burn"} -> "account"
      [] OTHER -> "start"

\* `await sendAndConfirmTransaction(...)`: main stands at the await until the
\* transaction is confirmed or fails.
AfterSend(o) == "sent"

\* The tree address a mint is given.
TreeArgument == IF treeAddress = <<>> THEN "" ELSE treeAddress[1]

\* The transactions the current operation sends, in order.
TxsOf(o) ==
    CASE o.op = "createTree" -> CreateTreeTxs("wallet", TreeKey, TreeParams(script))
      [] o.op = "createCollection" -> CreateCollectionTxs("wallet")
      [] o.op = "mint" -> MintTxs("wallet", TreeArgument, o.collection)
      [] o.op \in {"transfer", "burn"} ->
            TransferTxs(o.op, assetData[1], ledger, "wallet", "receiver")

\* createTree: createAllocTreeIx has asked the cluster for the rent and got
\* its answer, or the request rejects.
BuildTree ==
    /\ Running
    /\ CurrentOp.op = "createTree"
    /\ phase = "start"
    /\ \/ /\ phase' = "built"
          /\ UNCHANGED <<pcOp, loopI, status>>
       \/ Throw
    /\ UNCHANGED <<script, treeAddress, assetIds, assetData, txQueue, inFlight,
                   ledger, balance, apc, balanceRead, airdropRequests>>

\* sendAndConfirmTransaction: the transaction is signed and sent.
SendTx ==
    /\ Running
    /\ CurrentOp.op \in {"createTree", "createCollection", "mint", "transfer", "burn"}
    /\ phase = ReadyPhase(CurrentOp)
    /\ LET queue == IF txQueue = <<>> THEN TxsOf(CurrentOp) ELSE txQueue
       IN /\ inFlight' = Append(inFlight, Head(queue))
          /\ txQueue' = Tail(queue)
    /\ phase' = AfterSend(CurrentOp)
    /\ UNCHANGED <<script, pcOp, loopI, status, treeAddress, assetIds, assetData,
                   ledger, balance, apc, balanceRead, airdropRequests>>

\* The cluster executes the transaction in flight, atomically, and
\* sendAndConfirmTransaction resolves or rejects.
ConfirmTx ==
    /\ Running
    /\ phase = "sent"
    /\ \E failAt \in 0..Len(inFlight[1].instrs) :
          LET r == ExecuteTx(ledger, inFlight[1], balance, failAt)
          IN /\ ledger' = r.ledger
             /\ inFlight' = Tail(inFlight)
             /\ IF ~r.ok
                THEN /\ Throw
                     /\ txQueue' = <<>>
                     /\ UNCHANGED treeAddress
                ELSE IF txQueue # <<>>
                THEN /\ phase' = ReadyPhase(CurrentOp)
                     /\ UNCHANGED <<pcOp, loopI, status, txQueue, treeAddress>>
                ELSE /\ UNCHANGED txQueue
                     /\ treeAddress' = IF CurrentOp.op = "createTree"
                                       THEN <<TreeKey>> ELSE treeAddress
                     /\ IF CurrentOp.op = "mint"
                        THEN IF CurrentOp.extract
                             THEN /\ phase' = "getTransaction"
                                  /\ UNCHANGED <<pcOp, loopI, status>>
                             ELSE NextIteration
                        ELSE Advance
    /\ UNCHANGED <<script, assetIds, assetData, balance, apc, balanceRead,
                   airdropRequests>>

\* After a mint: extractAssetId on what getTransaction answers for the mint's
\* signature, the transaction or null.
GetTransaction ==
    /\ Running
    /\ phase = "getTransaction"
    /\ \E info \in {MintTxInfo(ledger.numMinted - 1), NullTx} :
          LET assetId == ExtractAssetId(info, TreeArgument)
          IN IF assetId = Thrown
             THEN Throw /\ UNCHANGED assetIds
             ELSE assetIds' = Append(assetIds, assetId) /\ NextIteration
    /\ UNCHANGED <<script, treeAddress, assetData, txQueue, inFlight, ledger,
                   balance, apc, balanceRead, airdropRequests>>

\* logNftDetails: one asset fetched from the read API and logged.
LogAsset ==
    /\ Running
    /\ CurrentOp.op = "log"
    /\ phase = "start"
    /\ NextIteration \/ Throw
    /\ UNCHANGED <<script, treeAddress, assetIds, assetData, txQueue, inFlight,
                   ledger, balance, apc, balanceRead, airdropRequests>>

\* transfer / burn: getAsset and getAssetProof answer for the asset; the
\* call throws when it was given no asset or the read API knows none.
FetchAsset ==
    /\ Running
    /\ CurrentOp.op \in {"transfer", "burn"}
    /\ phase = "start"
    /\ LET arg == AssetArgument(CurrentOp.asset)
           known == /\ arg # <<>>
                    /\ arg[1].kind = "asset"
                    /\ arg[1].tree = TreeKey
                    /\ arg[1].leaf < ledger.numMinted
                    /\ ledger.owners[arg[1].leaf + 1] # "burned"
       IN \/ /\ known
             /\ assetData' = <<[leaf |-> arg[1].leaf,
                                owner |-> ledger.owners[arg[1].leaf + 1]]>>
             /\ phase' = "account"
             /\ UNCHANGED <<pcOp, loopI, status>>
          \/ /\ Throw
             /\ UNCHANGED assetData
    /\ UNCHANGED <<script, treeAddress, assetIds, txQueue, inFlight, ledger,
                   balance, apc, balanceRead, airdropRequests>>

(***************************************************************************)
(* Claims about extractAssetId.                                            *)
(***************************************************************************)

\* The no-op instructions of a group, in order.
NoOpsOf(instructions) ==
    SelectSeq(instructions, LAMBDA ix : ix.program = SPL_NOOP_PROGRAM_ID)

\* The positions of seq holding a change-log event with a defined index.
DecodablePositions(seq) ==
    {i \in 1..Len(seq) :
        seq[i].data.kind = "ChangeLog" /\ seq[i].data.index # Undefined}

\* The 1-based position of the first top-level Bubblegum instruction (0: none).
FirstBubblegum(info) ==
    IF \E i \in 1..Len(info.programs) : info.programs[i] = BUBBLEGUM_PROGRAM_ID
    THEN CHOOSE i \in 1..Len(info.programs) :
            /\ info.programs[i] = BUBBLEGUM_PROGRAM_ID
            /\ \A j \in 1..(i - 1) : info.programs[j] # BUBBLEGUM_PROGRAM_ID
    ELSE 0

\* The call was made on a transaction with a Bubblegum instruction, and the
\* inner-instruction group the function scans exists.
ScannedCall ==
    /\ extracted # <<>>
    /\ txInfo.found
    /\ FirstBubblegum(txInfo) > 0
    /\ txInfo.hasInner
    /\ FirstBubblegum(txInfo) <= Len(txInfo.inner)

\* The no-op inner instructions the call scanned.
ScannedNoOps == NoOpsOf(txInfo.inner[FirstBubblegum(txInfo)].instructions)

RECURSIVE AllNoOps(_)
AllNoOps(groups) ==
    IF groups = <<>> THEN <<>>
    ELSE NoOpsOf(Head(groups).instructions) \o AllNoOps(Tail(groups))

\* C2: every asset ID extractAssetId returns is derived from the tree address
\* and a leaf index recovered from a change-log event of the transaction; with
\* no decodable change-log event it returns no asset ID (no default index).
C2_NoDefaultLeafIndex ==
    (extracted # <<>> /\ extracted[1].kind = "asset") =>
        /\ extracted[1].tree = treeArg
        /\ \E i \in DecodablePositions(AllNoOps(txInfo.inner)) :
              AllNoOps(txInfo.inner)[i].data.index = Some(extracted[1].leaf)

\* C14: when no top-level instruction of the transaction is addressed to the
\* Bubblegum program, extractAssetId returns undefined: it raises nothing and
\* derives no asset ID, whatever the inner instructions hold (or when there
\* are none to read).
C14_EarlyExitWithoutBubblegum ==
    (/\ extracted # <<>>
     /\ txInfo.found
     /\ \A i \in 1..Len(txInfo.programs) :
            txInfo.programs[i] # BUBBLEGUM_PROGRAM_ID)
        => extracted[1] = ReturnedUndefined

\* The call returned undefined for a transaction with no Bubblegum
\* instruction whose first group of inner instructions holds a change log.
C14_Witness ==
    /\ extracted = <<ReturnedUndefined>>
    /\ txInfo.found
    /\ Len(txInfo.programs) >= 1
    /\ \A i \in 1..Len(txInfo.programs) :
           txInfo.programs[i] # BUBBLEGUM_PROGRAM_ID
    /\ txInfo.hasInner
    /\ Len(txInfo.inner) >= 1
    /\ \E k \in 1..Len(txInfo.inner[1].instructions) :
           txInfo.inner[1].instructions[k].data.kind = "ChangeLog"

\* The groups of inner instructions whose `index` field is n.
GroupsOfIndex(info, n) ==
    {k \in 1..Len(info.inner) : info.inner[k].index = n}

\* C15: for a transaction with a Bubblegum instruction, the inner instructions
\* scanned are those of the group whose `index` field is the position of the
\* first Bubblegum instruction; when the metadata holds no inner instructions
\* the call raises nothing and yields no asset ID.
C15_ScansGroupOfBubblegumIndex ==
    (extracted # <<>> /\ txInfo.found /\ RelevantIndex(txInfo) >= 0) =>
        /\ \A k \in GroupsOfIndex(txInfo, RelevantIndex(txInfo)) :
              LET ixs == FilterNoOps(txInfo.inner[k].instructions)
              IN extracted[1] =
                     GetLeafAssetId(treeArg, BN(ScanAssetIndex(ixs, Len(ixs))))
        /\ (~txInfo.hasInner \/ txInfo.inner = <<>>) =>
              extracted[1].kind \notin {"throw", "asset"}

(***************************************************************************)
(* Claims about getOrCreateKeypair.                                        *)
(***************************************************************************)

\* The number of line feeds of a text.
LineFeeds(text) == Cardinality({i \in 1..Len(text) : text[i] = "\n"})

\* The text after the last line feed.
LastLine(text) ==
    LET feeds == {i \in 1..Len(text) : text[i] = "\n"}
    IN IF feeds = {} THEN text ELSE SubSeq(text, Max(feeds) + 1, Len(text))

\* C5: getOrCreateKeypair(walletName) returns the existing keypair when the
\* environment holds a secret key for walletName, and then writes nothing to
\* .env; otherwise it generates a keypair and appends exactly one line
\* walletName=<secret key as JSON array>, leaving the earlier content as is.
C5_KeypairFrame ==
    lastCall # <<>> =>
        LET c == lastCall[1]
        IN IF c.envBefore # Absent /\ c.envBefore # <<>>
           THEN /\ envFile = c.fileBefore
                /\ c.keypair.ok
                /\ JsonStringify(c.keypair.secretKey) = c.envBefore
           ELSE /\ c.keypair.ok
                /\ Len(envFile) > Len(c.fileBefore)
                /\ SubSeq(envFile, 1, Len(c.fileBefore)) = c.fileBefore
                /\ LineFeeds(envFile) = LineFeeds(c.fileBefore) + 1
                /\ LastLine(envFile) =
                       <<c.name, "=">> \o JsonStringify(c.keypair.secretKey)

\* C5 witness: a call that found its key in the environment of a run whose
\* .env an earlier call had extended.
C5_Witness ==
    /\ lastCall # <<>>
    /\ lastCall[1].envBefore # Absent
    /\ lastCall[1].envBefore # <<>>
    /\ lastCall[1].keypair.ok
    /\ saved # {}

\* C5 second case reached: a call that generated a keypair and extended a
\* .env that had content.
C5_GeneratedReached ==
    /\ lastCall # <<>>
    /\ lastCall[1].envBefore = Absent
    /\ lastCall[1].fileBefore # <<>>

\* C6: a keypair generated and saved by getOrCreateKeypair(walletName) in one
\* run is the keypair (same secret key, same public key) the call returns in
\* every later run loading the same .env, for Wallet_1 and Wallet_2.
C6_RoundTrip ==
    lastCall # <<>> =>
        \A s \in saved :
            (s.name = lastCall[1].name /\ s.run < lastCall[1].run) =>
                lastCall[1].keypair =
                    [ok |-> TRUE, secretKey |-> s.secretKey,
                     publicKey |-> <<s.secretKey[2]>>]

\* C6 witness: a later run got back the Wallet_2 keypair an earlier run saved.
C6_Witness ==
    /\ lastCall # <<>>
    /\ lastCall[1].name = "Wallet_2"
    /\ \E s \in saved :
          /\ s.name = "Wallet_2"
          /\ s.run < lastCall[1].run
          /\ lastCall[1].keypair.ok
          /\ lastCall[1].keypair.secretKey = s.secretKey

\* C13, as stated: no operation writes local state that outlives the run:
\* the .env file is never changed.
C13_NoLocalStateSurvives == [][envFile' = envFile]_keyVars

\* C13, amended: the one piece of local state that outlives a run is .env, and
\* it changes only when getOrCreateKeypair finds no secret key for the wallet
\* it is asked for: then one line is appended and the earlier content stays.
C13_OnlyNewKeypairLineSurvives ==
    [][envFile' # envFile =>
          /\ callsLeft # <<>>
          /\ processEnv[Head(callsLeft)] \in {Absent, <<>>}
          /\ Len(envFile') > Len(envFile)
          /\ SubSeq(envFile', 1, Len(envFile)) = envFile
          /\ LineFeeds(envFile') = LineFeeds(envFile) + 1]_keyVars

\* A later run has loaded from .env the secret key an earlier run wrote there.
C13_Witness ==
    \E s \in saved :
        /\ s.run < runNo
        /\ processEnv[s.name] = JsonStringify(s.secretKey)

(***************************************************************************)
(* Claims about the proof path.                                            *)
(***************************************************************************)

\* C9: the proof path is the first max(0, proof.length - canopyDepth) nodes of
\* the proof, in order, each non-signer and non-writable; it is empty for every
\* canopyDepth >= proof.length; an undefined canopy depth counts as 0.
C9_ProofPathIsPrefix ==
    proofPath # <<>> =>
        LET depth == IF canopyDepth = Undefined THEN 0 ELSE canopyDepth[1]
            keep == IF Len(proof) - depth > 0 THEN Len(proof) - depth ELSE 0
            path == proofPath[1]
        IN /\ Len(path) = keep
           /\ \A i \in 1..Len(path) :
                 /\ path[i].pubkey = proof[i]
                 /\ ~path[i].isSigner
                 /\ ~path[i].isWritable
           /\ (depth >= Len(proof) => path = <<>>)

\* The part of C9 the code keeps: the statement for canopy depths that do not
\* exceed the length of the proof.
C9_HoldsUpToProofLength ==
    (proofPath # <<>> /\ CanopyOrZero(canopyDepth) <= Len(proof)) =>
        C9_ProofPathIsPrefix

(***************************************************************************)
(* Claims about the scripts.                                               *)
(***************************************************************************)

\* The transactions in flight that hold an instruction of one of the kinds.
InFlightOf(kinds) ==
    {i \in 1..Len(inFlight) :
        \E j \in 1..Len(inFlight[i].instrs) : inFlight[i].instrs[j].kind \in kinds}

MintKinds == {"mint", "mintToCollection"}

\* C3: in every main the order is create tree, mint, transfer / burn: a mint
\* transaction is in flight only once createTree has returned the address of
\* an initialised tree, and a transfer or burn is called only with an asset
\* whose mint is confirmed and, where the asset ID comes from a mint call,
\* with the ID that call returned.
C3_TreeThenMintThenTransfer ==
    script \in MainScripts =>
        /\ InFlightOf(MintKinds) # {} =>
              ledger.tree = "initialized" /\ treeAddress = <<TreeKey>>
        /\ (Running /\ CurrentOp.op \in {"transfer", "burn"}) =>
              LET arg == AssetArgument(CurrentOp.asset)
              IN /\ arg # <<>>
                 /\ arg[1].kind = "asset"
                 /\ arg[1].tree = TreeKey
                 /\ arg[1].leaf < ledger.numMinted
                 /\ CurrentOp.asset # "leaf0" =>
                       \E k \in 1..Len(assetIds) :
                           assetIds[k] = arg[1] /\ arg[1].leaf = k - 1

\* A main has minted, transferred the first asset and sent the burn of the
\* second.
C3_Witness ==
    /\ script \in MainScripts
    /\ InFlightOf({"burn"}) # {}
    /\ ledger.owners[1] = "receiver"
    /\ Len(assetIds) = 2

\* C4: a transaction that allocates or initialises the tree holds exactly the
\* allocation and then the initialisation, is paid by the payer and signed by
\* exactly the tree keypair and the payer; the tree account is never left
\* allocated and uninitialised.
C4_CreateTreeAtomic ==
    /\ ledger.tree # "allocated"
    /\ \A i \in InFlightOf({"alloc", "createTree"}) :
          /\ Len(inFlight[i].instrs) = 2
          /\ inFlight[i].instrs[1].kind = "alloc"
          /\ inFlight[i].instrs[2].kind = "createTree"
          /\ inFlight[i].feePayer = "wallet"
          /\ inFlight[i].signers = {TreeKey, "wallet"}

\* createTree has returned the address of the tree, allocated and initialised.
C4_Witness ==
    /\ ledger.tree = "initialized"
    /\ treeAddress = <<TreeKey>>
    /\ inFlight = <<>>

\* createTree has thrown and left no account behind.
C4_FailedReached ==
    /\ status = "failed"
    /\ CurrentOp.op = "createTree"
    /\ phase = "sent"
    /\ ledger.tree = "none"

\* C7: airdropSolIfNeeded requests an airdrop if and only if the balance it
\* read first is below 1 SOL, and then requests 2 SOL, once; before the
\* balance is read and from 1 SOL on there is no request.
C7_AirdropIffBelowOneSol ==
    /\ balanceRead = <<>> => airdropRequests = <<>>
    /\ balanceRead # <<>> =>
          airdropRequests =
              IF balanceRead[1].sol < 1 THEN <<Lamports(2, 0)>> ELSE <<>>

\* The call has ended after an airdrop requested from one lamport below 1
\* SOL and confirmed.
C7_Witness ==
    /\ apc = "done"
    /\ balanceRead = <<Lamports(0, LAMPORTS_PER_SOL - 1)>>
    /\ airdropRequests = <<Lamports(2, 0)>>
    /\ balance = Lamports(2, LAMPORTS_PER_SOL - 1)

\* The call has ended without a request, from exactly 1 SOL.
C7_NoRequestReached ==
    /\ apc = "done"
    /\ balanceRead = <<Lamports(1, 0)>>
    /\ airdropRequests = <<>>

\* The script calls airdropSolIfNeeded.
CallsAirdrop(s) ==
    \E i \in 1..Len(ScriptOps(s)) : ScriptOps(s)[i].op = "airdrop"

\* C8: in every entry point that funds the wallet, airdropSolIfNeeded has
\* ended before a transaction paid by the wallet is sent: none is in flight
\* while the airdrop call is still running.
C8_AirdropEndsBeforeFirstTx ==
    (CallsAirdrop(script) /\ \E i \in 1..Len(inFlight) : inFlight[i].feePayer = "wallet")
        => apc \in {"done", "thrown"}

\* C10: in every main no mint is sent to a tree that is full: while a mint
\* transaction is in flight the tree holds fewer than 2^maxDepth leaves.
C10_MintsWithinCapacity ==
    (script \in MainScripts /\ InFlightOf(MintKinds) # {})
        => ledger.numMinted < 2 ^ ledger.maxDepth

\* C11: the canopy depth passed to the tree-allocation instruction is a valid
\* depth: between 0 and the maxDepth of the same tree, and at most 17.
C11_CanopyDepthValid ==
    \A i \in 1..Len(inFlight) :
        \A j \in 1..Len(inFlight[i].instrs) :
            inFlight[i].instrs[j].kind = "alloc" =>
                /\ 0 <= inFlight[i].instrs[j].canopyDepth
                /\ inFlight[i].instrs[j].canopyDepth <= inFlight[i].instrs[j].maxDepth
                /\ inFlight[i].instrs[j].canopyDepth <= 17

\* C12: the tree authority passed in the create-tree instruction and in every
\* mint instruction is the address derived from the tree address under the
\* Bubblegum program, whoever pays and however many calls came before.
C12_TreeAuthorityOfTreeAddress ==
    \A i \in InFlightOf(MintKinds \cup {"createTree"}) :
        \A j \in 1..Len(inFlight[i].instrs) :
            inFlight[i].instrs[j].kind \in MintKinds \cup {"createTree"} =>
                inFlight[i].instrs[j].authority =
                    <<"pda", TreeKey, BUBBLEGUM_PROGRAM_ID>>

\* A later mint into the tree is in flight, carrying the authority the tree
\* was created with.
C12_Witness ==
    /\ ledger.tree = "initialized"
    /\ ledger.numMinted >= 1
    /\ InFlightOf(MintKinds) # {}
    /\ inFlight[1].instrs[1].authority = FindProgramAddress(TreeKey, BUBBLEGUM_PROGRAM_ID)

\* C16: in the mint / transfer / burn mains the two mint calls return two
\* asset IDs, both defined and different from each other (the leaves 0 and 1
\* of the tree), and the transfer and the burn sent act on different leaves:
\* the transfer on the first asset, the burn on the second.
C16_TwoMintsTwoAssets ==
    script \in {"burn", "full"} =>
        /\ \A k \in 1..Len(assetIds) :
              assetIds[k].kind = "asset" /\ assetIds[k].tree = TreeKey
        /\ \A k, m \in 1..Len(assetIds) : k # m => assetIds[k] # assetIds[m]
        /\ \A i \in 1..Len(inFlight) :
              /\ inFlight[i].instrs[1].kind = "transfer" =>
                    /\ Len(assetIds) >= 2
                    /\ inFlight[i].instrs[1].leaf = assetIds[1].leaf
                    /\ inFlight[i].instrs[1].leaf # assetIds[2].leaf
              /\ inFlight[i].instrs[1].kind = "burn" =>
                    /\ inFlight[i].instrs[1].leaf = assetIds[2].leaf
                    /\ inFlight[i].instrs[1].leaf # assetIds[1].leaf

\* The mint / transfer / burn main has returned: the first asset belongs to
\* the receiver, the second is burned.
C16_Witness ==
    /\ script = "burn"
    /\ status = "done"
    /\ Len(assetIds) = 2
    /\ assetIds[1].leaf = 0
    /\ assetIds[2].leaf = 1
    /\ ledger.owners = <<"receiver", "burned">>

\* C17: at every moment at most one transaction sent by the script is
\* unconfirmed, so the leaf updates in flight on its tree never exceed 1, nor
\* the tree's maxBufferSize.
C17_OneTransactionInFlight ==
    /\ Len(inFlight) <= 1
    /\ Len(inFlight) <= TreeParams(script).maxBufferSize
    /\ inFlight # <<>> => phase = "sent"

\* The last mint that fits the tree of part_000's main is in flight, alone.
C17_Witness ==
    /\ script = "collection"
    /\ loopI = 7
    /\ ledger.numMinted = 7
    /\ Len(inFlight) = 1
    /\ InFlightOf(MintKinds) = {1}

\* C18: in part_001's main the leaves whose asset IDs logNftDetails logs
\* (0 .. 2^maxDepth - 1) are exactly the leaves the mint loop before it
\* produced on the new tree, and the asset transferred afterwards, the one of
\* leaf 0, is the first one minted and belongs to the sending wallet when the
\* transfer is called and sent.
C18_LoggedAndTransferredAreMinted ==
    (script = "readapi" /\ Running) =>
        /\ CurrentOp.op = "log" =>
              /\ CurrentOp.amount = ledger.numMinted
              /\ ledger.numMinted = 2 ^ ledger.maxDepth
              /\ Len(ledger.owners) = ledger.numMinted
              /\ loopI \in 0..(ledger.numMinted - 1)
        /\ CurrentOp.op = "transfer" =>
              /\ AssetArgument(CurrentOp.asset) = <<GetLeafAssetId(TreeKey, 0)>>
              /\ ledger.numMinted >= 1
              /\ inFlight = <<>> => ledger.owners[1] = "wallet"
              /\ \A i \in 1..Len(inFlight) :
                    /\ inFlight[i].instrs[1].kind = "transfer"
                    /\ inFlight[i].instrs[1].leaf = 0
                    /\ inFlight[i].instrs[1].owner = "wallet"
                    /\ inFlight[i].signers = {"wallet"}
                    /\ ledger.owners[1] = "wallet"

\* part_001's main has logged its eight assets and its transfer of leaf 0 is
\* in flight.
C18_Witness ==
    /\ script = "readapi"
    /\ status = "running"
    /\ pcOp = 6
    /\ ledger.numMinted = 8
    /\ Len(inFlight) = 1
    /\ inFlight[1].instrs[1].kind = "transfer"
    /\ inFlight[1].instrs[1].leaf = 0

\* part_001's main has returned: leaf 0 belongs to the receiver.
C18_TransferredReached ==
    /\ script = "readapi"
    /\ status = "done"
    /\ ledger.owners[1] = "receiver"

(***************************************************************************)
(* Specifications                                                          *)
(***************************************************************************)

vars == <<extractVars, keyVars, proofVars, flowVars>>

ExtractIdle ==
    /\ txInfo = NullTx
    /\ treeArg = "treeA"
    /\ extracted = <<>>

ProofIdle ==
    /\ proof = <<>>
    /\ canopyDepth = Undefined
    /\ proofPath = <<>>

FlowIdle ==
    /\ script = "starter"
    /\ pcOp = 1
    /\ phase = "start"
    /\ loopI = 0
    /\ status = "running"
    /\ treeAddress = <<>>
    /\ assetIds = <<>>
    /\ assetData = <<>>
    /\ txQueue = <<>>
    /\ inFlight = <<>>
    /\ ledger = EmptyLedger
    /\ balance = Lamports(0, 0)
    /\ apc = "idle"
    /\ balanceRead = <<>>
    /\ airdropRequests = <<>>

KeysIdle ==
    /\ envFile = <<>>
    /\ processEnv = [name \in WalletNames |-> Absent]
    /\ runNo = 0
    /\ callsLeft = <<>>
    /\ lastCall = <<>>
    /\ saved = {}

\* extractAssetId applied to every transaction within the bounds.
InitExtract ==
    /\ txInfo \in TxInfos
    /\ treeArg \in TreeAddresses
    /\ extracted = <<>>
    /\ KeysIdle
    /\ ProofIdle
    /\ FlowIdle

NextExtract == Extract /\ UNCHANGED <<keyVars, proofVars, flowVars>>

SpecExtract == InitExtract /\ [][NextExtract]_vars

\* Successive runs of the scripts over one .env file.
InitKeys ==
    /\ envFile \in InitialEnvFiles
    /\ processEnv = [name \in WalletNames |-> Absent]
    /\ runNo = 0
    /\ callsLeft = <<>>
    /\ lastCall = <<>>
    /\ saved = {}
    /\ ExtractIdle
    /\ ProofIdle
    /\ FlowIdle

NextKeys ==
    \/ StartRun /\ UNCHANGED <<extractVars, proofVars, flowVars>>
    \/ GetOrCreateKeypair /\ UNCHANGED <<extractVars, proofVars, flowVars>>

SpecKeys == InitKeys /\ [][NextKeys]_vars

\* The proof path computed for every proof and canopy depth within the bounds.
InitProof ==
    /\ proof \in SeqsUpTo(ProofNodes, MaxProofLen)
    /\ canopyDepth \in {Undefined} \cup {Some(d) : d \in 0..MaxCanopy}
    /\ proofPath = <<>>
    /\ ExtractIdle
    /\ KeysIdle
    /\ FlowIdle

NextProof == TransferProofPath /\ UNCHANGED <<extractVars, keyVars, flowVars>>

SpecProof == InitProof /\ [][NextProof]_vars

\* One run of any entry point, from any starting balance of the wallet.
Init ==
    /\ script \in Scripts
    /\ pcOp = 1
    /\ phase = "start"
    /\ loopI = 0
    /\ status = "running"
    /\ treeAddress = IF script = "test" THEN <<TreeKey>> ELSE <<>>
    /\ assetIds = <<>>
    /\ assetData = <<>>
    /\ txQueue = <<>>
    /\ inFlight = <<>>
    /\ ledger = EmptyLedger
    /\ balance \in Balances
    /\ apc = "idle"
    /\ balanceRead = <<>>
    /\ airdropRequests = <<>>
    /\ ExtractIdle
    /\ KeysIdle
    /\ ProofIdle

Next ==
    \/ StartAirdrop /\ UNCHANGED <<extractVars, keyVars, proofVars>>
    \/ AirdropReturned /\ UNCHANGED <<extractVars, keyVars, proofVars>>
    \/ AirdropBalance /\ UNCHANGED <<extractVars, keyVars, proofVars>>
    \/ AirdropRequested /\ UNCHANGED <<extractVars, keyVars, proofVars>>
    \/ AirdropBlockhash /\ UNCHANGED <<extractVars, keyVars, proofVars>>
    \/ AirdropConfirmed /\ UNCHANGED <<extractVars, keyVars, proofVars>>
    \/ AirdropNewBalance /\ UNCHANGED <<extractVars, keyVars, proofVars>>
    \/ BuildTree /\ UNCHANGED <<extractVars, keyVars, proofVars>>
    \/ SendTx /\ UNCHANGED <<extractVars, keyVars, proofVars>>
    \/ ConfirmTx /\ UNCHANGED <<extractVars, keyVars, proofVars>>
    \/ GetTransaction /\ UNCHANGED <<extractVars, keyVars, proofVars>>
    \/ LogAsset /\ UNCHANGED <<extractVars, keyVars, proofVars>>
    \/ FetchAsset /\ UNCHANGED <<extractVars, keyVars, proofVars>>

Spec == Init /\ [][Next]_vars

====
